---- MODULE Spec2Model ----
(***************************************************************************)
(* EasyWallbox: bridge between a BLE charging station and an MQTT bus.     *)
(*                                                                         *)
(* Two dispatch architectures live in the repository and both are          *)
(* modelled here, each as its own specification over its own variables:    *)
(*                                                                         *)
(*   SpecM  easywallbox/src: BLEManager.start (connection lifecycle),      *)
(*          BLEManager.write and the Coordinator entry points that call    *)
(*          it from other asyncio tasks (web handlers, MQTT loop).         *)
(*   SpecQ  easywallbox.py: ble_task_loop draining an asyncio.Queue that   *)
(*          on_message fills from the MQTT client thread.                  *)
(*   SpecF  easywallbox/src: the notification handlers of BLEManager and   *)
(*          the Coordinator callback that forwards what they emit.         *)
(*   SpecP  easywallbox/src: MQTTBLEMapper.map_command and                 *)
(*          Coordinator._map_mqtt_to_ble as pure functions of their        *)
(*          arguments.                                                     *)
(*   SpecL  BLEManager.start alone, with more connect attempts.            *)
(*   SpecLFair  SpecL with weak fairness of the lifecycle steps.           *)
(*   SpecBFair  MQTTManager.start and stop: the bus client loop, with weak  *)
(*          fairness of the loop's own steps.                              *)
(*   SpecS  BLEManager.start together with the notifications the device    *)
(*          sends in its sessions, on both channels.                       *)
(*   SpecA  BLEManager.start together with the device's answers to the     *)
(*          login and the Coordinator callback that handles them.          *)
(*                                                                         *)
(* asyncio tasks only interleave at an await, so one action of the model   *)
(* is the code that runs from one await to the next.                       *)
(***************************************************************************)
EXTENDS Naturals, Sequences, FiniteSets, TLC

\* ------------------------------------------------------------------ bounds
MaxAttempts == 4        \* BleakClient objects created by BLEManager.start
MaxSessions == 2        \* connect attempts explored together with the entry points
MaxMsgs == 3            \* items put on cmd_queue by on_message
MaxQAttempts == 3       \* calls of eb.connect() by ble_task_loop
MaxReq == 2             \* web requests (set_limit / refresh_data / reconnect_ble)
MaxNotifs == 3          \* notifications delivered by the transport (TX and ST together)

\* --------------------------------------------------------------- constants
BackoffSecs == 5        \* ble_manager.py:72  asyncio.sleep(5)
RetrySecs == 10         \* easywallbox.py:232 asyncio.sleep(10) after a failed connect
ReconnectSecs == 2      \* easywallbox.py:250 asyncio.sleep(2) after "__RECONNECT__"
CooldownSecs == 5       \* easywallbox.py:263 asyncio.sleep(5) after a loop error

None == 0               \* self._client = None

LOGIN == "$BLE,AUTH,{pin}\n"
START_CHARGE == "$CMD,CHARGE,START,0\n"
STOP_CHARGE == "$CMD,CHARGE,STOP,0\n"
RECONNECT == "__RECONNECT__"

\* WALLBOX_ANSWERS: the device's answers to the login, as the bytes of one
\* notification (the text, then the line terminator)
ANSWER_ERRAUTH == <<"$ERR,AUTH", "\n">>
ANSWER_AUTHFAIL == <<"$BLE,AUTH,FAIL", "\n">>
ANSWER_AUTHOK == <<"$BLE,AUTH,OK", "\n">>
AuthAnswers == {ANSWER_ERRAUTH, ANSWER_AUTHFAIL, ANSWER_AUTHOK}
READ_SETTINGS == "$EEP,READ,ST\n"
READ_APP_DATA == "$DATA,READ,AD\n"
SET_USER_LIMIT == "$EEP,WRITE,IDX,174,{limit}\n"
SET_DPM_LIMIT == "$EEP,WRITE,IDX,158,{limit}\n"
SET_SAFE_LIMIT == "$EEP,WRITE,IDX,156,{limit}\n"
SET_DPM_OFF == "$EEP,WRITE,IDX,178,0\n"
SET_DPM_ON == "$EEP,WRITE,IDX,178,1\n"
GET_USER_LIMIT == "$EEP,READ,IDX,174\n"
GET_DPM_LIMIT == "$EEP,READ,IDX,158\n"
GET_SAFE_LIMIT == "$EEP,READ,IDX,156\n"
GET_DPM_STATUS == "$EEP,READ,IDX,178\n"
READ_MANUFACTURING == "$EEP,READ,MF\n"
READ_HW_SETTINGS == "$DATA,READ,HS\n"
READ_SUPPLY_VOLTAGE == "$DATA,READ,SV\n"
START_CHARGE_TEMPLATE == "$CMD,CHARGE,START,{delay}\n"
STOP_CHARGE_TEMPLATE == "$CMD,CHARGE,STOP,{delay}\n"

WebTasks == {"w1", "w2"}            \* aiohttp runs each request in its own task

VARIABLES
    \* ---- BLEManager (ble_manager.py)
    bpc,            \* where the task running BLEManager.start is suspended
    running,        \* self._running
    client,         \* self._client: None or the id of a BleakClient
    isConn,         \* isConn[c]: BleakClient c .is_connected
    hasCallback,    \* on_connection_change_callback was given to __init__
    connectedSignals,     \* calls of the connection-change callback with True
    disconnectedSignals,  \* calls of the connection-change callback with False
    lastSignal,           \* argument of the last call of the callback ("none" before the first)
    attempts,       \* BleakClient objects created so far (= connect attempts)
    backoffs,       \* completed asyncio.sleep(5) waits
    settled,        \* attempts whose connect, start_notify x2, _authenticate, sleep(2) all returned
    waited,         \* seconds slept by start() since it last left a try block
    stopCalled,     \* BLEManager.stop() has been called
    regTx, regSt,   \* start_notify returned for this client (TX / ST channel)
    loginWritten,   \* write_gatt_char was called with LOGIN for this client
    inflight,       \* tasks whose write_gatt_char call has not returned yet
    \* ---- Coordinator entry points (coordinator.py, web_server.py)
    wpc,            \* per web task: idle or the Coordinator call it is suspended in
    wcmd,           \* per web task: command passed to BLEManager.write
    reqs,           \* web requests served so far
    rpc,            \* task running Coordinator.reconnect_ble: idle / disconnecting
    rclient,        \* client whose disconnect() reconnect_ble is awaiting
    mqttErr,        \* MQTTManager logged "Error processing MQTT message"
    cap             \* connect attempts explored under this specification

VARIABLES
    \* ---- bus client loop (mqtt_manager.py 17-66, 184-186)
    mqpc,           \* where MQTTManager.start is suspended
    mq_running,     \* MQTTManager._running
    mq_client,      \* MQTTManager._client is set
    mq_stopCalled,  \* MQTTManager.stop() was called
    subscribed,     \* topics subscribed on the current broker connection
    busMsgs,        \* inbound bus messages received so far
    busErrors       \* exceptions caught by the loop so far

bvars == <<mqpc, mq_running, mq_client, mq_stopCalled, subscribed, busMsgs, busErrors>>

mvars == <<bpc, running, client, isConn, hasCallback, connectedSignals,
           disconnectedSignals, lastSignal, attempts, backoffs, settled, waited, stopCalled,
           regTx, regSt, loginWritten, inflight, wpc, wcmd, reqs, rpc, rclient,
           mqttErr, cap, bvars>>

VARIABLES
    \* ---- queue-based dispatcher (easywallbox.py)
    qpc,             \* where ble_task_loop is suspended
    connected,       \* eb.connected
    qlink,           \* eb.client.is_connected
    queue,           \* cmd_queue
    reconnect_event, \* reconnect_event.is_set()
    enqueued,        \* every item put on cmd_queue, in put order
    qwritten,        \* every string handed to write_gatt_char, in call order
    qRegTx, qRegSt,  \* start_notify returned for this session (TX / ST channel)
    qLogin,          \* the login command was handed to write_gatt_char in this session
    qattempts,       \* calls of eb.connect()
    qwaited,         \* seconds slept by the loop since the link was last torn down or refused
    qforced,         \* the link was last torn down for the "__RECONNECT__" item
    write_failed     \* the last write_gatt_char call raised ("Write failed" logged, line 87)

qvars == <<qpc, connected, qlink, queue, reconnect_event, enqueued, qwritten,
           qRegTx, qRegSt, qLogin, qattempts, qwaited, qforced, write_failed>>

VARIABLES
    \* ---- notification path (ble_manager.py 96-133, coordinator.py 81-86)
    notification_buffer_rx,  \* self._notification_buffer_rx, as decoded characters
    notification_buffer_st,  \* self._notification_buffer_st
    fedRx,           \* every byte the TX channel has notified, in arrival order
    notifs,          \* notifications delivered so far
    delivered,       \* arguments of the _on_notify_callback tasks created, in order
    handled,         \* how many of those tasks have run
    last_data,       \* Coordinator._last_data
    published        \* (topic, payload) pairs handed to the broker by MQTTManager.publish

fvars == <<notification_buffer_rx, notification_buffer_st, fedRx, notifs,
           delivered, handled, last_data, published>>

VARIABLES
    \* ---- one call of the command mappers (mqtt_ble_mapper.py, coordinator.py 88-137)
    mpc,             \* idle / called / returned
    arg_subtopic,    \* argument subtopic, as the pieces the mappers take it apart into
    arg_payload,     \* argument payload, likewise
    mapped,          \* what MQTTBLEMapper.map_command returned
    cmapped          \* what Coordinator._map_mqtt_to_ble returned

pvars == <<mpc, arg_subtopic, arg_payload, mapped, cmapped>>

static == <<hasCallback, bvars, qvars, fvars, pvars>>

nonq == <<mvars, fvars, pvars>>

vars == <<mvars, qvars, fvars, pvars>>

ClientIds == 1..(MaxAttempts + 1)

\* BLEManager.__init__ / Coordinator.__init__
InitM ==
    /\ bpc = "init"
    /\ running = FALSE
    /\ client = None
    /\ isConn = [c \in ClientIds |-> FALSE]
    /\ hasCallback \in BOOLEAN
    /\ connectedSignals = 0
    /\ disconnectedSignals = 0
    /\ lastSignal = "none"
    /\ attempts = 0
    /\ backoffs = 0
    /\ settled = 0
    /\ waited = 0
    /\ stopCalled = FALSE
    /\ regTx = FALSE
    /\ regSt = FALSE
    /\ loginWritten = FALSE
    /\ inflight = {}
    /\ wpc = [t \in WebTasks |-> "idle"]
    /\ wcmd = [t \in WebTasks |-> ""]
    /\ reqs = 0
    /\ rpc = "idle"
    /\ rclient = None
    /\ mqttErr = FALSE

\* easywallbox.py: EasyWallbox.__init__ (36-42) and main (278-279)
InitQueue ==
    /\ qpc = "q_top"
    /\ connected = FALSE
    /\ qlink = FALSE
    /\ queue = <<>>
    /\ reconnect_event = FALSE
    /\ enqueued = <<>>
    /\ qwritten = <<>>
    /\ qRegTx = FALSE
    /\ qRegSt = FALSE
    /\ qLogin = FALSE
    /\ qattempts = 0
    /\ qwaited = 0
    /\ qforced = FALSE
    /\ write_failed = FALSE

\* BLEManager.__init__ lines 21-22, Coordinator.__init__ line 16
InitNotify ==
    /\ notification_buffer_rx = <<>>
    /\ notification_buffer_st = <<>>
    /\ fedRx = <<>>
    /\ notifs = 0
    /\ delivered = <<>>
    /\ handled = 0
    /\ last_data = ""
    /\ published = <<>>

\* MQTTManager.__init__, lines 11-15
InitBus ==
    /\ mqpc = "m_init"
    /\ mq_running = FALSE
    /\ mq_client = FALSE
    /\ mq_stopCalled = FALSE
    /\ subscribed = 0
    /\ busMsgs = 0
    /\ busErrors = 0

\* no mapper call in progress
InitNoCall ==
    /\ mpc = "idle"
    /\ arg_subtopic = <<>>
    /\ arg_payload = <<>>
    /\ mapped = "(not called)"
    /\ cmapped = "(not called)"

\* the lifecycle task alone, against the transport
InitL == InitM /\ InitBus /\ InitQueue /\ InitNotify /\ InitNoCall /\ cap = MaxAttempts

\* the lifecycle task together with the Coordinator's entry points
InitC == InitM /\ InitBus /\ InitQueue /\ InitNotify /\ InitNoCall /\ cap = MaxSessions

\* the queue-based dispatcher
InitQ == InitM /\ InitBus /\ InitQueue /\ InitNotify /\ InitNoCall /\ cap = 0

\* the command mappers, called on their own
InitP == InitM /\ InitBus /\ InitQueue /\ InitNotify /\ InitNoCall /\ cap = 0

\* the notification path of a manager whose channels are registered
InitF == InitM /\ InitBus /\ InitQueue /\ InitNotify /\ InitNoCall /\ cap = 0

\* ------------------------------------------------- BLEManager.start, pieces
\* Each piece is synchronous code that runs inside the action that reaches it.

\* line 27 (loop test true), 30, 32: a new BleakClient, then await connect()
NewAttempt ==
    /\ attempts < cap
    /\ attempts' = attempts + 1
    /\ client' = attempts + 1
    /\ bpc' = "connect"
    /\ regTx' = FALSE
    /\ regSt' = FALSE
    /\ loginWritten' = FALSE

\* lines 68-72: drop the handle, then sleep(5) if still running, else the
\* loop test at line 27 fails and start() returns
Reset ==
    /\ client' = None
    /\ bpc' = IF running THEN "backoff" ELSE "done"

\* lines 63-67: disconnect only a client that reports connected
Teardown ==
    IF client # None /\ isConn[client]
    THEN bpc' = "disconnect" /\ client' = client
    ELSE Reset

\* lines 55-61: the except clauses only log; finally signals "disconnected"
EnterFinally ==
    /\ waited' = 0
    /\ IF hasCallback
       THEN /\ disconnectedSignals' = disconnectedSignals + 1
            /\ lastSignal' = "False"
            /\ bpc' = "cb_false"
            /\ client' = client
       ELSE /\ UNCHANGED <<disconnectedSignals, lastSignal>>
            /\ Teardown

\* lines 52-53: while self._running and self._client.is_connected: sleep(1)
MonitorTest ==
    IF running /\ isConn[client]
    THEN bpc' = "monitor" /\ UNCHANGED <<client, disconnectedSignals, lastSignal, waited>>
    ELSE EnterFinally

\* ----------------------------------------------- BLEManager.start, actions
sessionVars == <<regTx, regSt, loginWritten>>
sigVars == <<connectedSignals, disconnectedSignals, lastSignal>>
countVars == <<attempts, backoffs, settled>>
webVars == <<wpc, wcmd, reqs, rpc, rclient, mqttErr, cap>>

\* lines 24-32
Start ==
    /\ bpc = "init"
    /\ running' = TRUE
    /\ NewAttempt
    /\ UNCHANGED <<isConn, static, sigVars, backoffs, settled, waited,
                   stopCalled, inflight, webVars>>

\* the connected signal given as soon as the transport is open
ConnectOk_SignalEarly ==
    /\ bpc = "connect"
    /\ isConn' = [isConn EXCEPT ![client] = TRUE]
    /\ bpc' = "notify_tx"
    /\ connectedSignals' = connectedSignals + 1
    /\ lastSignal' = "True"
    /\ UNCHANGED <<running, client, static, disconnectedSignals, countVars,
                   waited, stopCalled, sessionVars, inflight, webVars>>

\* line 32 returns
ConnectOk ==
    /\ bpc = "connect"
    /\ isConn' = [isConn EXCEPT ![client] = TRUE]
    /\ bpc' = "notify_tx"
    /\ UNCHANGED <<running, client, static, sigVars, countVars, waited,
                   stopCalled, sessionVars, inflight, webVars>>

\* line 32 raises
ConnectFail ==
    /\ bpc = "connect"
    /\ ~isConn[client]
    /\ EnterFinally
    /\ UNCHANGED <<running, isConn, static, connectedSignals, countVars, stopCalled,
                   sessionVars, inflight, webVars>>

\* line 36 returns
NotifyTxOk ==
    /\ bpc = "notify_tx"
    /\ isConn[client]
    /\ regTx' = TRUE
    /\ bpc' = "notify_st"
    /\ UNCHANGED <<running, client, isConn, static, sigVars, countVars,
                   waited, stopCalled, regSt, loginWritten, inflight,
                   webVars>>

\* line 38 returns; the transport's disconnect callback may still run before
\* the task resumes in _authenticate
NotifyStOk ==
    /\ bpc = "notify_st"
    /\ isConn[client]
    /\ regSt' = TRUE
    /\ bpc' = "auth"
    /\ UNCHANGED <<running, client, isConn, static, sigVars, countVars,
                   waited, stopCalled, regTx, loginWritten, inflight,
                   webVars>>

\* line 36 or 38 raises (link lost, or a transport error on a live link)
NotifyFail ==
    /\ bpc \in {"notify_tx", "notify_st"}
    /\ EnterFinally
    /\ UNCHANGED <<running, isConn, static, connectedSignals, countVars, stopCalled,
                   sessionVars, inflight, webVars>>

\* lines 42, 74-91: _authenticate -> write; write returns silently when the
\* client is not connected, and start() goes on to sleep(2)
Authenticate ==
    /\ bpc = "auth"
    /\ IF isConn[client]
       THEN /\ bpc' = "auth_write"
            /\ inflight' = inflight \cup {"ble"}
            /\ loginWritten' = TRUE
       ELSE /\ bpc' = "settle"
            /\ UNCHANGED <<inflight, loginWritten>>
    /\ UNCHANGED <<running, client, isConn, static, sigVars, countVars,
                   waited, stopCalled, regTx, regSt, webVars>>

\* line 91 returns
AuthWriteOk ==
    /\ bpc = "auth_write"
    /\ inflight' = inflight \ {"ble"}
    /\ bpc' = "settle"
    /\ UNCHANGED <<running, client, isConn, static, sigVars, countVars,
                   waited, stopCalled, sessionVars, webVars>>

\* line 91 raises; write re-raises (line 94) through _authenticate
AuthWriteFail ==
    /\ bpc = "auth_write"
    /\ inflight' = inflight \ {"ble"}
    /\ EnterFinally
    /\ UNCHANGED <<running, isConn, static, connectedSignals, countVars, stopCalled,
                   sessionVars, webVars>>

\* a manager that looks at the device's answer after the settle wait and
\* gives the session up when the login was refused
SettleDone_CheckAnswer ==
    /\ bpc = "settle"
    /\ settled' = settled + 1
    /\ IF \E i \in 1..Len(delivered) : delivered[i] \in {ANSWER_ERRAUTH, ANSWER_AUTHFAIL}
       THEN EnterFinally /\ UNCHANGED connectedSignals
       ELSE IF hasCallback
            THEN /\ connectedSignals' = connectedSignals + 1
                 /\ lastSignal' = "True"
                 /\ bpc' = "cb_true"
                 /\ UNCHANGED <<client, disconnectedSignals, waited>>
            ELSE MonitorTest /\ UNCHANGED connectedSignals
    /\ UNCHANGED <<running, isConn, static, attempts, backoffs,
                   stopCalled, sessionVars, inflight, webVars>>

\* line 45 returns; lines 48-49 call the callback with True, or lines 52-53
\* when no callback was given
SettleDone ==
    /\ bpc = "settle"
    /\ settled' = settled + 1
    /\ IF hasCallback
       THEN /\ connectedSignals' = connectedSignals + 1
            /\ lastSignal' = "True"
            /\ bpc' = "cb_true"
            /\ UNCHANGED <<client, disconnectedSignals, waited>>
       ELSE MonitorTest /\ UNCHANGED connectedSignals
    /\ UNCHANGED <<running, isConn, static, attempts, backoffs,
                   stopCalled, sessionVars, inflight, webVars>>

\* line 49 returns
CbTrueOk ==
    /\ bpc = "cb_true"
    /\ MonitorTest
    /\ UNCHANGED <<running, isConn, static, connectedSignals, countVars, stopCalled,
                   sessionVars, inflight, webVars>>

\* line 49 raises
CbTrueFail ==
    /\ bpc = "cb_true"
    /\ EnterFinally
    /\ UNCHANGED <<running, isConn, static, connectedSignals, countVars, stopCalled,
                   sessionVars, inflight, webVars>>

\* a finally block that closes the transport without the "disconnected" signal
MonitorPoll_SkipSignal ==
    /\ bpc = "monitor"
    /\ IF running /\ isConn[client]
       THEN bpc' = "monitor" /\ UNCHANGED <<client, waited>>
       ELSE waited' = 0 /\ Teardown
    /\ UNCHANGED <<running, isConn, static, sigVars, countVars, stopCalled,
                   sessionVars, inflight, webVars>>

\* line 53 returns
MonitorPoll ==
    /\ bpc = "monitor"
    /\ MonitorTest
    /\ UNCHANGED <<running, isConn, static, connectedSignals, countVars, stopCalled,
                   sessionVars, inflight, webVars>>

\* line 61 returns
CbFalseOk ==
    /\ bpc = "cb_false"
    /\ Teardown
    /\ UNCHANGED <<running, isConn, static, sigVars, countVars, waited,
                   stopCalled, sessionVars, inflight, webVars>>

\* line 61 raises inside the finally block: nothing catches it and the
\* exception leaves start()
CbFalseFail ==
    /\ bpc = "cb_false"
    /\ bpc' = "raised"
    /\ UNCHANGED <<running, client, isConn, static, sigVars, countVars,
                   waited, stopCalled, sessionVars, inflight, webVars>>

\* line 65 returns
DisconnectOk ==
    /\ bpc = "disconnect"
    /\ isConn' = [isConn EXCEPT ![client] = FALSE]
    /\ Reset
    /\ UNCHANGED <<running, static, sigVars, countVars, waited,
                   stopCalled, sessionVars, inflight, webVars>>

\* line 65 raises and lines 66-67 swallow it; whether the link is still up
\* after a failed disconnect is the transport's business
DisconnectFail ==
    /\ bpc = "disconnect"
    /\ \E up \in BOOLEAN : isConn' = [isConn EXCEPT ![client] = up /\ isConn[client]]
    /\ Reset
    /\ UNCHANGED <<running, static, sigVars, countVars, waited,
                   stopCalled, sessionVars, inflight, webVars>>

\* the loop going round without the sleep of line 72
BackoffDone_NoSleep ==
    /\ bpc = "backoff"
    /\ IF running
       THEN NewAttempt
       ELSE bpc' = "done" /\ UNCHANGED <<client, attempts, sessionVars>>
    /\ UNCHANGED <<running, isConn, static, sigVars, backoffs, settled, waited,
                   stopCalled, inflight, webVars>>

\* line 72 returns, then the loop test of line 27
BackoffDone ==
    /\ bpc = "backoff"
    /\ backoffs' = backoffs + 1
    /\ waited' = waited + BackoffSecs
    /\ IF running
       THEN NewAttempt
       ELSE bpc' = "done" /\ UNCHANGED <<client, attempts, sessionVars>>
    /\ UNCHANGED <<running, isConn, static, sigVars, settled, stopCalled,
                   inflight, webVars>>

\* lines 135-137
Stop ==
    /\ bpc # "init"
    /\ ~stopCalled
    /\ running' = FALSE
    /\ stopCalled' = TRUE
    /\ UNCHANGED <<bpc, client, isConn, static, sigVars, countVars, waited,
                   sessionVars, inflight, webVars>>

\* the device goes out of range: BleakClient.is_connected turns False
LinkLoss ==
    /\ \E c \in 1..attempts :
          /\ isConn[c]
          /\ isConn' = [isConn EXCEPT ![c] = FALSE]
    /\ UNCHANGED <<bpc, running, client, static, sigVars, countVars, waited,
                   stopCalled, sessionVars, inflight, webVars>>

Lifecycle ==
    \/ Start \/ ConnectOk \/ ConnectFail \/ NotifyTxOk \/ NotifyStOk \/ NotifyFail
    \/ Authenticate \/ AuthWriteOk \/ AuthWriteFail \/ SettleDone
    \/ CbTrueOk \/ CbTrueFail \/ MonitorPoll \/ CbFalseOk \/ CbFalseFail
    \/ DisconnectOk \/ DisconnectFail \/ BackoffDone

\* --------------------------------------- Coordinator / web server entry points
bleVars == <<bpc, running, client, static, connectedSignals,
             disconnectedSignals, lastSignal, countVars, waited, stopCalled, sessionVars, cap>>

\* BLEManager.write, line 82: the guard that lets a write through
CanWrite == client # None /\ isConn[client]

\* Coordinator.set_limit: the template chosen for a limit type ("" for cmd = None)
LimitCommand(limit_type) ==
    CASE limit_type = "dpm" -> SET_DPM_LIMIT
      [] limit_type = "safe" -> SET_SAFE_LIMIT
      [] limit_type = "user" -> SET_USER_LIMIT
      [] OTHER -> ""

LimitTypes == {"dpm", "safe", "user", "other"}

\* a write without the guard of line 82: the command is handed to the
\* transport whatever the state of the client
SetLimit_WriteUnguarded(t) ==
    /\ wpc[t] = "idle"
    /\ reqs < MaxReq
    /\ reqs' = reqs + 1
    /\ \E limit_type \in LimitTypes :
          IF LimitCommand(limit_type) # ""
          THEN /\ wpc' = [wpc EXCEPT ![t] = "set_limit"]
               /\ wcmd' = [wcmd EXCEPT ![t] = LimitCommand(limit_type)]
               /\ inflight' = inflight \cup {t}
          ELSE UNCHANGED <<wpc, wcmd, inflight>>
    /\ UNCHANGED <<bleVars, isConn, rpc, rclient, mqttErr>>

\* web_server.handle_set_limit -> Coordinator.set_limit -> BLEManager.write up
\* to the await of write_gatt_char; nothing is written for an unknown type or
\* when write finds no connected client
SetLimit(t) ==
    /\ wpc[t] = "idle"
    /\ reqs < MaxReq
    /\ reqs' = reqs + 1
    /\ \E limit_type \in LimitTypes :
          IF LimitCommand(limit_type) # "" /\ CanWrite
          THEN /\ wpc' = [wpc EXCEPT ![t] = "set_limit"]
               /\ wcmd' = [wcmd EXCEPT ![t] = LimitCommand(limit_type)]
               /\ inflight' = inflight \cup {t}
          ELSE UNCHANGED <<wpc, wcmd, inflight>>
    /\ UNCHANGED <<bleVars, isConn, rpc, rclient, mqttErr>>

\* web_server.handle_refresh -> Coordinator.refresh_data, first write
RefreshData(t) ==
    /\ wpc[t] = "idle"
    /\ reqs < MaxReq
    /\ reqs' = reqs + 1
    /\ IF CanWrite
       THEN /\ wpc' = [wpc EXCEPT ![t] = "refresh1"]
            /\ wcmd' = [wcmd EXCEPT ![t] = READ_SETTINGS]
            /\ inflight' = inflight \cup {t}
       ELSE UNCHANGED <<wpc, wcmd, inflight>>
    /\ UNCHANGED <<bleVars, isConn, rpc, rclient, mqttErr>>

\* refresh_data: the first write returned, the second write begins (or is
\* dropped by the guard of write)
RefreshSecond(t) ==
    /\ wpc[t] = "refresh1"
    /\ IF CanWrite
       THEN /\ wpc' = [wpc EXCEPT ![t] = "refresh2"]
            /\ wcmd' = [wcmd EXCEPT ![t] = READ_APP_DATA]
            /\ UNCHANGED inflight
       ELSE /\ wpc' = [wpc EXCEPT ![t] = "idle"]
            /\ wcmd' = [wcmd EXCEPT ![t] = ""]
            /\ inflight' = inflight \ {t}
    /\ UNCHANGED <<bleVars, isConn, reqs, rpc, rclient, mqttErr>>

\* write_gatt_char returns and the Coordinator call ends, or it raises and the
\* exception (ble_manager.py:94) ends the Coordinator call
WebWriteEnd(t) ==
    /\ wpc[t] \in {"set_limit", "refresh1", "refresh2"}
    /\ wpc' = [wpc EXCEPT ![t] = "idle"]
    /\ wcmd' = [wcmd EXCEPT ![t] = ""]
    /\ inflight' = inflight \ {t}
    /\ UNCHANGED <<bleVars, isConn, reqs, rpc, rclient, mqttErr>>

\* Coordinator.reconnect_ble up to the await of disconnect()
ReconnectBle ==
    /\ rpc = "idle"
    /\ reqs < MaxReq
    /\ reqs' = reqs + 1
    /\ IF client # None
       THEN /\ rpc' = "disconnecting"
            /\ rclient' = client
       ELSE UNCHANGED <<rpc, rclient>>
    /\ UNCHANGED <<bleVars, isConn, inflight, wpc, wcmd, mqttErr>>

\* the disconnect() awaited by reconnect_ble returns (link down) or raises
ReconnectEnd ==
    /\ rpc = "disconnecting"
    /\ rpc' = "idle"
    /\ rclient' = None
    /\ \E up \in BOOLEAN : isConn' = [isConn EXCEPT ![rclient] = up /\ isConn[rclient]]
    /\ UNCHANGED <<bleVars, inflight, wpc, wcmd, reqs, mqttErr>>

\* config.py 8-16: the Config dataclass has no field mqtt_topic
ConfigHasMqttTopic == FALSE

\* MQTTManager.start lines 48-57 -> Coordinator._on_mqtt_message: line 35 reads
\* self._config.mqtt_topic, the AttributeError is caught and logged by
\* MQTTManager and no command is mapped or written
OnMqttMessage ==
    /\ ~ConfigHasMqttTopic
    /\ mqttErr' = TRUE
    /\ UNCHANGED <<bleVars, isConn, inflight, wpc, wcmd, reqs, rpc, rclient>>

Web ==
    \/ \E t \in WebTasks : SetLimit(t)
    \/ \E t \in WebTasks : RefreshData(t)
    \/ \E t \in WebTasks : RefreshSecond(t)
    \/ \E t \in WebTasks : WebWriteEnd(t)
    \/ ReconnectBle \/ ReconnectEnd

\* ---------------------------------------- queue-based dispatcher: on_message
\* mqttmap.MQTT2BLE, keyed by topic (written here without the configured
\* prefix), then by payload; a key ending in "/" holds a setter function
MQTT2BLE ==
    [charge |-> [start |-> START_CHARGE, stop |-> STOP_CHARGE],
     limit  |-> [user |-> "$EEP,READ,IDX,174\n"]]

\* mqttmap.MQTT2BLE["limit"]["user/"]: the setter applied to a numeric payload
UserLimitSetter(payload) == "$EEP,WRITE,IDX,174," \o payload \o "\n"

Topics == {"control", "charge", "limit", "other"}
Payloads == {"reconnect", "start", "stop", "16"}

\* str.isdigit on the payloads of the model
IsDigit(payload) == payload \in {"16"}

\* on_message lines 316-339: ble_command ("" for None)
BleCommand(topic, payload) ==
    IF topic \in DOMAIN MQTT2BLE
    THEN IF payload \in DOMAIN MQTT2BLE[topic]
         THEN MQTT2BLE[topic][payload]
         ELSE IF topic = "limit" /\ IsDigit(payload)
              THEN UserLimitSetter(payload)
              ELSE ""
    ELSE ""

\* put_nowait on a LIFO queue
QueuePut_Lifo(q, x) == <<x>> \o q

\* asyncio.Queue.put_nowait (lines 310, 342)
QueuePut(q, x) == Append(q, x)

\* asyncio.Queue.get (line 244): the item taken and the queue left
QueueGet(q) == [item |-> Head(q), rest |-> Tail(q)]

\* on_message, lines 298-347; it runs on the MQTT client's thread
OnMessage(topic, payload) ==
    /\ Len(enqueued) < MaxMsgs
    /\ LET item == IF topic = "control" /\ payload = "reconnect"
                   THEN RECONNECT
                   ELSE BleCommand(topic, payload)
       IN  /\ item # ""
           /\ queue' = QueuePut(queue, item)
           /\ enqueued' = Append(enqueued, item)
    /\ UNCHANGED <<qpc, connected, qlink, reconnect_event, qwritten, qRegTx,
                   qRegSt, qLogin, qattempts, qwaited, qforced, write_failed, nonq>>

\* ------------------------------------- queue-based dispatcher: ble_task_loop
qSession == <<qRegTx, qRegSt, qLogin>>
qData == <<queue, enqueued, qwritten>>

\* lines 241-242, 260-262: a set reconnect_event raises into the outer except,
\* whose eb.disconnect() awaits client.disconnect(); otherwise wait on the queue
CommandPhase == IF reconnect_event THEN "q_disc_err" ELSE "q_get"

\* lines 222-225 and 236-244: the loop head
QLoopTop ==
    /\ qpc = "q_top"
    /\ IF ~connected
       THEN /\ qattempts < MaxQAttempts
            /\ qattempts' = qattempts + 1
            /\ qpc' = "q_connect"
       ELSE /\ qpc' = CommandPhase
            /\ UNCHANGED qattempts
    /\ UNCHANGED <<connected, qlink, reconnect_event, qData, qSession, qwaited,
                   qforced, write_failed, nonq>>

\* connect() lines 47-53: client.connect() returned; publishing "connected"
\* succeeds and connect() returns True, then setup_notifications begins
QConnectOk ==
    /\ qpc = "q_connect"
    /\ qlink' = TRUE
    /\ connected' = TRUE
    /\ qpc' = "q_notify_tx"
    /\ qRegTx' = FALSE
    /\ qRegSt' = FALSE
    /\ qLogin' = FALSE
    /\ qwaited' = 0
    /\ qforced' = FALSE
    /\ UNCHANGED <<reconnect_event, qData, qattempts, write_failed, nonq>>

\* connect() lines 47-57: client.connect() returned and self.connected is set,
\* but publishing "connected" raised: the except clause publishes
\* "disconnected" and connect() returns False with self.connected still True
QConnectOkPublishFail ==
    /\ qpc = "q_connect"
    /\ qlink' = TRUE
    /\ connected' = TRUE
    /\ qpc' = "q_retry"
    /\ qRegTx' = FALSE
    /\ qRegSt' = FALSE
    /\ qLogin' = FALSE
    /\ qwaited' = 0
    /\ qforced' = FALSE
    /\ UNCHANGED <<reconnect_event, qData, qattempts, write_failed, nonq>>

\* connect() lines 54-57: client.connect() raised
QConnectFail ==
    /\ qpc = "q_connect"
    /\ qpc' = "q_retry"
    /\ qwaited' = 0
    /\ qforced' = FALSE
    /\ UNCHANGED <<connected, qlink, reconnect_event, qData, qSession,
                   qattempts, write_failed, nonq>>

\* line 56 raises inside the except clause of connect(): the exception leaves
\* connect() at line 225, outside every try of ble_task_loop
QConnectCrash ==
    /\ qpc = "q_connect"
    /\ qpc' = "q_crashed"
    /\ \E up \in BOOLEAN : qlink' = up /\ connected' = up
    /\ UNCHANGED <<reconnect_event, qData, qSession, qattempts, qwaited,
                   qforced, write_failed, nonq>>

\* line 232 returns; continue
QRetryDone ==
    /\ qpc = "q_retry"
    /\ qwaited' = qwaited + RetrySecs
    /\ qpc' = "q_top"
    /\ UNCHANGED <<connected, qlink, reconnect_event, qData, qSession,
                   qattempts, qforced, write_failed, nonq>>

\* setup_notifications line 68 returns
QNotifyTxOk ==
    /\ qpc = "q_notify_tx"
    /\ qlink
    /\ qRegTx' = TRUE
    /\ qpc' = "q_notify_st"
    /\ UNCHANGED <<connected, qlink, reconnect_event, qData, qRegSt, qLogin,
                   qattempts, qwaited, qforced, write_failed, nonq>>

\* setup_notifications line 69 returns; line 228 sleep(1) begins
QNotifyStOk ==
    /\ qpc = "q_notify_st"
    /\ qlink
    /\ qRegSt' = TRUE
    /\ qpc' = "q_stabilize"
    /\ UNCHANGED <<connected, qlink, reconnect_event, qData, qRegTx, qLogin,
                   qattempts, qwaited, qforced, write_failed, nonq>>

\* setup_notifications line 68 or 69 raises: lines 71-72 log it and return,
\* and ble_task_loop goes on to sleep(1) and authenticate()
QNotifyFail ==
    /\ qpc \in {"q_notify_tx", "q_notify_st"}
    /\ qpc' = "q_stabilize"
    /\ UNCHANGED <<connected, qlink, reconnect_event, qData, qSession,
                   qattempts, qwaited, qforced, write_failed, nonq>>

\* line 228 returns; authenticate() -> write(auth_cmd), lines 75-85
QAuthenticate ==
    /\ qpc = "q_stabilize"
    /\ IF connected
       THEN /\ qwritten' = Append(qwritten, LOGIN)
            /\ qLogin' = TRUE
            /\ qpc' = "q_auth_write"
       ELSE /\ qpc' = CommandPhase
            /\ UNCHANGED <<qwritten, qLogin>>
    /\ UNCHANGED <<connected, qlink, reconnect_event, queue, enqueued, qRegTx,
                   qRegSt, qattempts, qwaited, qforced, write_failed, nonq>>

\* line 85 returns, or raises and lines 86-87 log it, for the login command
QAuthWriteEnd ==
    /\ qpc = "q_auth_write"
    /\ \E raised \in BOOLEAN : write_failed' = raised
    /\ qpc' = CommandPhase
    /\ UNCHANGED <<connected, qlink, reconnect_event, qData, qSession,
                   qattempts, qwaited, qforced, nonq>>

\* the loop handing every dequeued item to eb.write, "__RECONNECT__" included
QGetCommand_NoIntercept ==
    /\ qpc = "q_get"
    /\ queue # <<>>
    /\ queue' = QueueGet(queue).rest
    /\ IF connected
       THEN /\ qwritten' = Append(qwritten, QueueGet(queue).item)
            /\ qpc' = "q_write"
       ELSE /\ qpc' = "q_top"
            /\ UNCHANGED qwritten
    /\ UNCHANGED <<connected, qlink, reconnect_event, enqueued, qSession,
                   qattempts, qwaited, qforced, write_failed, nonq>>

\* line 244 returns a normal item; lines 254, 75-85: eb.write(item)
QGetCommand ==
    /\ qpc = "q_get"
    /\ queue # <<>>
    /\ QueueGet(queue).item # RECONNECT
    /\ queue' = QueueGet(queue).rest
    /\ IF connected
       THEN /\ qwritten' = Append(qwritten, QueueGet(queue).item)
            /\ qpc' = "q_write"
       ELSE /\ qpc' = "q_top"
            /\ UNCHANGED qwritten
    /\ UNCHANGED <<connected, qlink, reconnect_event, enqueued, qSession,
                   qattempts, qwaited, qforced, write_failed, nonq>>

\* line 244 returns "__RECONNECT__"; lines 248-249, 60-62: eb.disconnect()
\* awaits client.disconnect()
QGetReconnect ==
    /\ qpc = "q_get"
    /\ queue # <<>>
    /\ QueueGet(queue).item = RECONNECT
    /\ queue' = QueueGet(queue).rest
    /\ reconnect_event' = FALSE
    /\ qpc' = IF connected THEN "q_disc_reconn" ELSE "q_reconn_sleep"
    /\ UNCHANGED <<connected, qlink, enqueued, qwritten, qSession, qattempts,
                   qwaited, qforced, write_failed, nonq>>

\* line 244 times out after 1 s on an empty queue (lines 257-258)
QGetTimeout ==
    /\ qpc = "q_get"
    /\ queue = <<>>
    /\ qpc' = "q_top"
    /\ UNCHANGED <<connected, qlink, reconnect_event, qData, qSession,
                   qattempts, qwaited, qforced, write_failed, nonq>>

\* line 85 returns, or raises and lines 86-87 log it, for a queued command;
\* line 255 task_done
QWriteEnd ==
    /\ qpc = "q_write"
    /\ \E raised \in BOOLEAN : write_failed' = raised
    /\ qpc' = "q_top"
    /\ UNCHANGED <<connected, qlink, reconnect_event, qData, qSession,
                   qattempts, qwaited, qforced, nonq>>

\* lines 62-64 after line 249: the link is closed, "disconnected" is
\* published, then line 250 sleep(2)
QDiscReconnOk ==
    /\ qpc = "q_disc_reconn"
    /\ qlink' = FALSE
    /\ connected' = FALSE
    /\ qwaited' = 0
    /\ qforced' = TRUE
    /\ qpc' = "q_reconn_sleep"
    /\ UNCHANGED <<reconnect_event, qData, qSession, qattempts, write_failed, nonq>>

\* line 64 raises after line 249 (publishing "disconnected" fails): the outer
\* except calls eb.disconnect(), a no-op now, then line 263 sleep(5)
QDiscReconnPublishFail ==
    /\ qpc = "q_disc_reconn"
    /\ qlink' = FALSE
    /\ connected' = FALSE
    /\ qwaited' = 0
    /\ qforced' = TRUE
    /\ qpc' = "q_cooldown"
    /\ UNCHANGED <<reconnect_event, qData, qSession, qattempts, write_failed, nonq>>

\* line 62 raises asyncio.TimeoutError after line 249: lines 257-258 take it
\* for the queue timeout and the loop goes on with eb.connected still True
QDiscReconnTimeout ==
    /\ qpc = "q_disc_reconn"
    /\ qpc' = "q_top"
    /\ UNCHANGED <<connected, qlink, reconnect_event, qData, qSession,
                   qattempts, qwaited, qforced, write_failed, nonq>>

\* line 62 raises after line 249: the outer except (260-262) calls
\* eb.disconnect() again, which awaits client.disconnect() again
QDiscReconnFail ==
    /\ qpc = "q_disc_reconn"
    /\ qpc' = "q_disc_err"
    /\ UNCHANGED <<connected, qlink, reconnect_event, qData, qSession,
                   qattempts, qwaited, qforced, write_failed, nonq>>

\* lines 62-64 after line 262: the link is closed, then line 263 sleep(5)
QDiscErrOk ==
    /\ qpc = "q_disc_err"
    /\ qlink' = FALSE
    /\ connected' = FALSE
    /\ qwaited' = 0
    /\ qpc' = "q_cooldown"
    /\ UNCHANGED <<reconnect_event, qData, qSession, qattempts, qforced, write_failed, nonq>>

\* line 62 raises after line 262, inside the except clause: the exception
\* leaves ble_task_loop
QDiscErrFail ==
    /\ qpc = "q_disc_err"
    /\ qpc' = "q_crashed"
    /\ UNCHANGED <<connected, qlink, reconnect_event, qData, qSession,
                   qattempts, qwaited, qforced, write_failed, nonq>>

\* line 64 raises after line 262, inside the except clause
QDiscErrPublishFail ==
    /\ qpc = "q_disc_err"
    /\ qlink' = FALSE
    /\ connected' = FALSE
    /\ qpc' = "q_crashed"
    /\ UNCHANGED <<reconnect_event, qData, qSession, qattempts, qwaited,
                   qforced, write_failed, nonq>>

\* line 250 returns; continue
QReconnSleepDone ==
    /\ qpc = "q_reconn_sleep"
    /\ qwaited' = qwaited + ReconnectSecs
    /\ qpc' = "q_top"
    /\ UNCHANGED <<connected, qlink, reconnect_event, qData, qSession,
                   qattempts, qforced, write_failed, nonq>>

\* line 263 returns
QCooldownDone ==
    /\ qpc = "q_cooldown"
    /\ qwaited' = qwaited + CooldownSecs
    /\ qpc' = "q_top"
    /\ UNCHANGED <<connected, qlink, reconnect_event, qData, qSession,
                   qattempts, qforced, write_failed, nonq>>

\* the device goes out of range; nothing in easywallbox.py reads is_connected
\* after connect()
QLinkLoss ==
    /\ qlink
    /\ qlink' = FALSE
    /\ UNCHANGED <<qpc, connected, reconnect_event, qData, qSession, qattempts,
                   qwaited, qforced, write_failed, nonq>>

BleTaskLoop ==
    \/ QLoopTop \/ QConnectOk \/ QConnectOkPublishFail \/ QConnectFail
    \/ QConnectCrash \/ QRetryDone \/ QNotifyTxOk \/ QNotifyStOk \/ QNotifyFail
    \/ QAuthenticate \/ QAuthWriteEnd \/ QGetCommand \/ QGetReconnect
    \/ QGetTimeout \/ QWriteEnd \/ QDiscReconnOk \/ QDiscReconnPublishFail
    \/ QDiscReconnTimeout \/ QDiscReconnFail \/ QDiscErrOk \/ QDiscErrFail
    \/ QDiscErrPublishFail \/ QReconnSleepDone \/ QCooldownDone

NextQ ==
    \/ BleTaskLoop
    \/ QLinkLoss
    \/ \E topic \in Topics, payload \in Payloads : OnMessage(topic, payload)

\* ------------------------------------------- notification path: the framer
\* A notification carries bytes.  The bytes of the model are runs of ASCII
\* text, the line terminator, and the two bytes of one two-byte UTF-8
\* character.
Terminator == "\n"
LeadByte == "0xC3"
ContinuationByte == "0xA9"
TwoByteChar == "U+00E9"             \* the character the two bytes encode

Fragments ==
    { <<"$EEP,READ,IDX,17">>, <<"4,160", Terminator>>,
      <<"x", Terminator, "x", Terminator>>, <<"x", Terminator, "x">>,
      <<Terminator>>, <<"x">>,
      <<LeadByte>>, <<ContinuationByte>>, <<LeadByte, ContinuationByte, Terminator>> }

RECURSIVE Decodable(_)
\* bytes.decode('utf-8') does not raise UnicodeDecodeError
Decodable(data) ==
    IF data = <<>> THEN TRUE
    ELSE IF Head(data) = LeadByte
         THEN /\ Len(data) >= 2
              /\ data[2] = ContinuationByte
              /\ Decodable(SubSeq(data, 3, Len(data)))
         ELSE /\ Head(data) # ContinuationByte
              /\ Decodable(Tail(data))

RECURSIVE Decode(_)
\* bytes.decode('utf-8') of decodable bytes: the characters
Decode(data) ==
    IF data = <<>> THEN <<>>
    ELSE IF Head(data) = LeadByte
         THEN <<TwoByteChar>> \o Decode(SubSeq(data, 3, Len(data)))
         ELSE <<Head(data)>> \o Decode(Tail(data))

\* "\n" in text
HasTerminator(text) == \E i \in 1..Len(text) : text[i] = Terminator

RECURSIVE Join(_)
\* the str a sequence of characters stands for
Join(text) == IF text = <<>> THEN "" ELSE Head(text) \o Join(Tail(text))

RECURSIVE Strip(_)
\* str.strip(): leading and trailing whitespace removed
Strip(text) ==
    IF text = <<>> THEN <<>>
    ELSE IF Head(text) = Terminator THEN Strip(Tail(text))
    ELSE IF text[Len(text)] = Terminator THEN Strip(SubSeq(text, 1, Len(text) - 1))
    ELSE text

\* a decode error leaving the accumulated text in the buffer
RxStep_KeepOnError(buffer, data) ==
    IF ~Decodable(data)
    THEN [buffer |-> buffer, emit |-> <<>>]
    ELSE LET text == buffer \o Decode(data)
         IN  IF HasTerminator(text)
             THEN [buffer |-> <<>>, emit |-> <<text>>]
             ELSE [buffer |-> text, emit |-> <<>>]

\* _notification_handler_rx, lines 98-111: the buffer left behind and the
\* arguments of the callback tasks created
RxStep(buffer, data) ==
    IF ~Decodable(data)
    THEN [buffer |-> <<>>, emit |-> <<>>]
    ELSE LET text == buffer \o Decode(data)
         IN  IF HasTerminator(text)
             THEN [buffer |-> <<>>, emit |-> <<text>>]
             ELSE [buffer |-> text, emit |-> <<>>]

\* _notification_handler_st, lines 122-133: the buffer left behind
StStep(buffer, data) ==
    IF ~Decodable(data)
    THEN <<>>
    ELSE LET text == buffer \o Decode(data)
         IN  IF HasTerminator(text) THEN <<>> ELSE text

\* the transport calls _notification_handler_rx(sender, data)
NotificationHandlerRx(data) ==
    /\ notifs < MaxNotifs
    /\ notifs' = notifs + 1
    /\ fedRx' = fedRx \o data
    /\ notification_buffer_rx' = RxStep(notification_buffer_rx, data).buffer
    /\ delivered' = delivered \o RxStep(notification_buffer_rx, data).emit
    /\ UNCHANGED <<notification_buffer_st, handled, last_data, published,
                   mvars, qvars, pvars>>

\* a status handler that accumulates in the buffer of the data channel
NotificationHandlerSt_SharedBuffer(data) ==
    /\ notifs < MaxNotifs
    /\ notifs' = notifs + 1
    /\ notification_buffer_rx' = StStep(notification_buffer_rx, data)
    /\ UNCHANGED <<notification_buffer_st, fedRx, delivered, handled, last_data,
                   published, mvars, qvars, pvars>>

\* the transport calls _notification_handler_st(sender, data)
NotificationHandlerSt(data) ==
    /\ notifs < MaxNotifs
    /\ notifs' = notifs + 1
    /\ notification_buffer_st' = StStep(notification_buffer_st, data)
    /\ UNCHANGED <<notification_buffer_rx, fedRx, delivered, handled, last_data,
                   published, mvars, qvars, pvars>>

\* mqtt_manager.py:175
MessageTopic == "easywallbox/message"

\* the next callback task runs: Coordinator._on_ble_notify, lines 83-86, and
\* MQTTManager.publish, lines 174-182; the payload reaches the broker, or
\* there is no broker client or the publish raises and is logged
OnBleNotify ==
    /\ handled < Len(delivered)
    /\ handled' = handled + 1
    /\ last_data' = Join(Strip(delivered[handled + 1]))
    /\ \E sent \in BOOLEAN :
          published' = IF sent
                       THEN Append(published, [topic |-> MessageTopic,
                                               payload |-> Join(delivered[handled + 1])])
                       ELSE published
    /\ UNCHANGED <<notification_buffer_rx, notification_buffer_st, fedRx, notifs,
                   delivered, mvars, qvars, pvars>>

\* what the device sends in the sessions of SpecS: the two halves of one line
SessionFragments == { <<"$EEP,READ,IDX,17">>, <<"4,160", Terminator>> }

\* the transport of the current session calls the RX handler: the TX channel
\* is registered (line 36) and the link is up
DeviceNotifiesRx(data) ==
    /\ regTx
    /\ client # None /\ isConn[client]
    /\ NotificationHandlerRx(data)

\* the transport of the current session calls the ST handler: the ST channel
\* is registered (line 38) and the link is up
DeviceNotifiesSt(data) ==
    /\ regSt
    /\ client # None /\ isConn[client]
    /\ NotificationHandlerSt(data)

\* the device answers the login of the current session on the TX channel:
\* the channel is registered, the login was written and the link is up; it
\* answers a login at most once, so there are never more answers than sessions
DeviceAnswersLogin(data) ==
    /\ regTx /\ loginWritten
    /\ client # None /\ isConn[client]
    /\ notifs < attempts
    /\ NotificationHandlerRx(data)

NextF ==
    \/ \E data \in Fragments : NotificationHandlerRx(data)
    \/ \E data \in Fragments : NotificationHandlerSt(data)
    \/ OnBleNotify

\* ------------------------------------------------------- the command mappers
\* A subtopic or payload is held as the pieces the mappers take it apart
\* into: the "set/" prefix, the "_limit" suffix and the "/" separator are
\* pieces of their own, and no other piece contains them.
NoCommand == ""                     \* return None
ValueError == "ValueError"          \* an exception leaving the function
NotCalled == "(not called)"

Subtopics ==
    { <<"dpm">>, <<"charge">>, <<"limit">>, <<"read">>, <<"status">>,
      <<"set/", "dpm">>, <<"set/", "user", "_limit">>, <<"set/", "safe", "_limit">>,
      <<"set/", "dpm", "_limit">>, <<"set/", "user", "_limit", "_limit">>,
      <<"set/", "refresh">>, <<"set/", "start_charge">>, <<"set/", "stop_charge">>,
      <<"set/", "other">> }

Keywords ==
    {"on", "off", "ON", "OFF", "limit", "status", "start", "stop", "dpm", "safe",
     "user", "manufacturing", "settings", "app_data", "hw_settings", "voltage"}

Values == {"16", "016", "7", "16.9", "abc", "5\n$EEP,WRITE,IDX,174,32"}

MapPayloads ==
    {<<k>> : k \in Keywords \cup Values}
        \cup {<<a, "/", v>> : a \in {"user", "safe", "dpm", "limit", "start", "stop", "other"},
                              v \in Values}
        \cup {<<"user", "/", "16", "/", "7">>}

\* int(text): the texts of the model that int() accepts, with their value
IntOf == ("16" :> 16) @@ ("016" :> 16) @@ ("7" :> 7)

\* int(float(text)): the texts float() accepts, with the truncated value
IntOfFloat == IntOf @@ ("16.9" :> 16)

\* str.format on the templates with one field
Format_Unfilled(template, value) == template

Format(template, value) ==
    CASE template = SET_USER_LIMIT -> "$EEP,WRITE,IDX,174," \o value \o "\n"
      [] template = SET_DPM_LIMIT -> "$EEP,WRITE,IDX,158," \o value \o "\n"
      [] template = SET_SAFE_LIMIT -> "$EEP,WRITE,IDX,156," \o value \o "\n"
      [] template = START_CHARGE_TEMPLATE -> "$CMD,CHARGE,START," \o value \o "\n"
      [] template = STOP_CHARGE_TEMPLATE -> "$CMD,CHARGE,STOP," \o value \o "\n"

\* "/" in payload
HasSlash(pieces) == \E i \in 1..Len(pieces) : pieces[i] = "/"

\* payload.split("/", 1): the text before the first "/" and the text after it
Split(pieces) ==
    LET i == CHOOSE k \in 1..Len(pieces) :
                 pieces[k] = "/" /\ \A j \in 1..(k - 1) : pieces[j] # "/"
    IN  [cmd |-> Join(SubSeq(pieces, 1, i - 1)),
         val |-> Join(SubSeq(pieces, i + 1, Len(pieces)))]

\* str(int(val)), or the ValueError of int()
StrInt(val) == IF val \in DOMAIN IntOf THEN ToString(IntOf[val]) ELSE ValueError

\* a template filled with str(int(val)); the ValueError is raised before format
FormatInt(template, val) ==
    IF StrInt(val) = ValueError THEN ValueError ELSE Format(template, StrInt(val))

\* MQTTBLEMapper._map_ha_command, lines 41-74
MapHaCommand(command, payload) ==
    IF Join(command) = "dpm"
    THEN CASE Join(payload) = "ON" -> SET_DPM_ON
           [] Join(payload) = "OFF" -> SET_DPM_OFF
           [] OTHER -> NoCommand
    ELSE IF command # <<>> /\ command[Len(command)] = "_limit"
    THEN LET limit_type == Join(SelectSeq(command, LAMBDA piece : piece # "_limit"))
         IN  IF Join(payload) \notin DOMAIN IntOfFloat THEN ValueError
             ELSE LET val == ToString(IntOfFloat[Join(payload)])
                  IN  CASE limit_type = "user" -> Format(SET_USER_LIMIT, val)
                        [] limit_type = "safe" -> Format(SET_SAFE_LIMIT, val)
                        [] limit_type = "dpm" -> Format(SET_DPM_LIMIT, val)
                        [] OTHER -> NoCommand
    ELSE CASE Join(command) = "refresh" -> READ_SETTINGS
           [] Join(command) = "start_charge" -> Format(START_CHARGE_TEMPLATE, "0")
           [] Join(command) = "stop_charge" -> Format(STOP_CHARGE_TEMPLATE, "0")
           [] OTHER -> NoCommand

\* MQTTBLEMapper._map_legacy_command, lines 77-139
MapLegacyCommand(subtopic, payload) ==
    LET text == Join(payload)
        cmd == Split(payload).cmd
        val == Split(payload).val
    IN  CASE Join(subtopic) = "dpm" ->
               CASE text = "on" -> SET_DPM_ON
                 [] text = "off" -> SET_DPM_OFF
                 [] text = "limit" -> GET_DPM_LIMIT
                 [] text = "status" -> GET_DPM_STATUS
                 [] OTHER -> IF HasSlash(payload) /\ cmd = "limit"
                             THEN FormatInt(SET_DPM_LIMIT, val)
                             ELSE NoCommand
          [] Join(subtopic) = "charge" ->
               CASE text = "start" -> Format(START_CHARGE_TEMPLATE, "0")
                 [] text = "stop" -> Format(STOP_CHARGE_TEMPLATE, "0")
                 [] OTHER -> IF ~HasSlash(payload) THEN NoCommand
                             ELSE CASE cmd = "start" -> Format(START_CHARGE_TEMPLATE, val)
                                    [] cmd = "stop" -> Format(STOP_CHARGE_TEMPLATE, val)
                                    [] OTHER -> NoCommand
          [] Join(subtopic) = "limit" ->
               CASE text = "dpm" -> GET_DPM_LIMIT
                 [] text = "safe" -> GET_SAFE_LIMIT
                 [] text = "user" -> GET_USER_LIMIT
                 [] OTHER -> IF ~HasSlash(payload) THEN NoCommand
                             ELSE IF StrInt(val) = ValueError THEN ValueError
                             ELSE CASE cmd = "dpm" -> Format(SET_DPM_LIMIT, StrInt(val))
                                    [] cmd = "safe" -> Format(SET_SAFE_LIMIT, StrInt(val))
                                    [] cmd = "user" -> Format(SET_USER_LIMIT, StrInt(val))
                                    [] OTHER -> NoCommand
          [] Join(subtopic) = "read" ->
               CASE text = "manufacturing" -> READ_MANUFACTURING
                 [] text = "settings" -> READ_SETTINGS
                 [] text = "app_data" -> READ_APP_DATA
                 [] text = "hw_settings" -> READ_HW_SETTINGS
                 [] text = "voltage" -> READ_SUPPLY_VOLTAGE
                 [] OTHER -> NoCommand
          [] OTHER -> NoCommand

\* MQTTBLEMapper.map_command, lines 17-38: except Exception turns an error
\* into None
MapCommand(subtopic, payload) ==
    LET command == IF subtopic # <<>> /\ Head(subtopic) = "set/"
                   THEN MapHaCommand(Tail(subtopic), payload)
                   ELSE MapLegacyCommand(subtopic, payload)
    IN  IF command = ValueError THEN NoCommand ELSE command

\* Coordinator._map_mqtt_to_ble, lines 88-137
MapMqttToBle(subtopic, payload) ==
    LET text == Join(payload)
        cmd == Split(payload).cmd
        val == Split(payload).val
        command ==
          CASE Join(subtopic) = "dpm" ->
                 CASE text = "on" -> SET_DPM_ON
                   [] text = "off" -> SET_DPM_OFF
                   [] text = "limit" -> GET_DPM_LIMIT
                   [] text = "status" -> GET_DPM_STATUS
                   [] OTHER -> IF HasSlash(payload) /\ cmd = "limit"
                               THEN IF val \in DOMAIN IntOf
                                    THEN Format(SET_DPM_LIMIT, ToString(IntOf[val] * 10))
                                    ELSE ValueError
                               ELSE NoCommand
            [] Join(subtopic) = "charge" ->
                 CASE text = "start" -> Format(START_CHARGE_TEMPLATE, "0")
                   [] text = "stop" -> Format(STOP_CHARGE_TEMPLATE, "0")
                   [] OTHER -> IF ~HasSlash(payload) THEN NoCommand
                               ELSE CASE cmd = "start" -> Format(START_CHARGE_TEMPLATE, val)
                                      [] cmd = "stop" -> Format(STOP_CHARGE_TEMPLATE, val)
                                      [] OTHER -> NoCommand
            [] Join(subtopic) = "limit" ->
                 CASE text = "dpm" -> GET_DPM_LIMIT
                   [] text = "safe" -> GET_SAFE_LIMIT
                   [] text = "user" -> GET_USER_LIMIT
                   [] OTHER -> IF ~HasSlash(payload) THEN NoCommand
                               ELSE CASE cmd = "dpm" -> FormatInt(SET_DPM_LIMIT, val)
                                      [] cmd = "safe" -> FormatInt(SET_SAFE_LIMIT, val)
                                      [] cmd = "user" -> FormatInt(SET_USER_LIMIT, val)
                                      [] OTHER -> NoCommand
            [] Join(subtopic) = "read" ->
                 CASE text = "manufacturing" -> READ_MANUFACTURING
                   [] text = "settings" -> READ_SETTINGS
                   [] text = "app_data" -> READ_APP_DATA
                   [] text = "hw_settings" -> READ_HW_SETTINGS
                   [] text = "voltage" -> READ_SUPPLY_VOLTAGE
                   [] OTHER -> NoCommand
            [] OTHER -> NoCommand
    IN  IF command = ValueError THEN NoCommand ELSE command

\* MQTTBLEMapper.get_refresh_commands, lines 147-152
RefreshCommands == <<READ_SETTINGS, READ_APP_DATA>>

\* a caller passes a subtopic and a payload
Call(subtopic, payload) ==
    /\ mpc = "idle"
    /\ mpc' = "called"
    /\ arg_subtopic' = subtopic
    /\ arg_payload' = payload
    /\ UNCHANGED <<mapped, cmapped, mvars, qvars, fvars>>

\* MQTTBLEMapper.map_command returns
MapCommandReturn ==
    /\ mpc = "called"
    /\ mapped = NotCalled
    /\ mapped' = MapCommand(arg_subtopic, arg_payload)
    /\ UNCHANGED <<mpc, arg_subtopic, arg_payload, cmapped, mvars, qvars, fvars>>

\* Coordinator._map_mqtt_to_ble returns
MapMqttToBleReturn ==
    /\ mpc = "called"
    /\ cmapped = NotCalled
    /\ cmapped' = MapMqttToBle(arg_subtopic, arg_payload)
    /\ UNCHANGED <<mpc, arg_subtopic, arg_payload, mapped, mvars, qvars, fvars>>

NextP ==
    \/ \E subtopic \in Subtopics, payload \in MapPayloads : Call(subtopic, payload)
    \/ MapCommandReturn
    \/ MapMqttToBleReturn

\* ------------------------------------------------- MQTTManager.start / stop
\* everything but the bus loop's own variables and mqttErr
nonbus == <<bpc, running, client, isConn, hasCallback, sigVars, countVars, waited,
            stopCalled, sessionVars, inflight, wpc, wcmd, reqs, rpc, rclient, cap,
            qvars, fvars, pvars>>

\* mqtt_manager.py 36-42: the topics start() subscribes to
BusTopics == <<"easywallbox/dpm", "easywallbox/charge", "easywallbox/limit",
               "easywallbox/read">>

\* lines 19-28: the flag is set, the loop test holds, the broker client is
\* entered
BusStart ==
    /\ mqpc = "m_init"
    /\ mq_running' = TRUE
    /\ mqpc' = "m_connect"
    /\ UNCHANGED <<mq_client, mq_stopCalled, subscribed, busMsgs, busErrors,
                   mqttErr, nonbus>>

\* lines 23-33: the broker connection is up, self._client is set and
\* publish_discovery is awaited
BusConnectOk ==
    /\ mqpc = "m_connect"
    /\ mq_client' = TRUE
    /\ subscribed' = 0
    /\ mqpc' = "m_discovery"
    /\ UNCHANGED <<mq_running, mq_stopCalled, busMsgs, busErrors, mqttErr, nonbus>>

\* line 33 returns; lines 43-44 await the first subscribe
BusDiscoveryDone ==
    /\ mqpc = "m_discovery"
    /\ mqpc' = "m_subscribe"
    /\ UNCHANGED <<mq_running, mq_client, mq_stopCalled, subscribed, busMsgs,
                   busErrors, mqttErr, nonbus>>

\* line 44 returns: the next subscribe, or after the last topic the message
\* loop of line 48
BusSubscribeOk ==
    /\ mqpc = "m_subscribe"
    /\ subscribed' = subscribed + 1
    /\ mqpc' = IF subscribed + 1 = Len(BusTopics) THEN "m_messages" ELSE "m_subscribe"
    /\ UNCHANGED <<mq_running, mq_client, mq_stopCalled, busMsgs, busErrors,
                   mqttErr, nonbus>>

\* an awaited call of lines 23-44 raises: lines 59-66 log it, drop the client
\* and sleep 5 s
BusCallFail ==
    /\ mqpc \in {"m_connect", "m_discovery", "m_subscribe"}
    /\ busErrors < MaxSessions
    /\ busErrors' = busErrors + 1
    /\ mq_client' = FALSE
    /\ mqpc' = "m_sleep"
    /\ UNCHANGED <<mq_running, mq_stopCalled, subscribed, busMsgs, mqttErr, nonbus>>

\* lines 48-57: the iterator yields a message, the callback
\* Coordinator._on_mqtt_message is awaited, its exception is logged, and the
\* loop waits for the next message; self._running is not looked at
BusMessage ==
    /\ mqpc = "m_messages"
    /\ busMsgs < MaxMsgs
    /\ busMsgs' = busMsgs + 1
    /\ mqttErr' = (mqttErr \/ ~ConfigHasMqttTopic)
    /\ UNCHANGED <<mqpc, mq_running, mq_client, mq_stopCalled, subscribed,
                   busErrors, nonbus>>

\* the broker connection breaks while the loop waits at line 48: the
\* iterator raises MqttError, lines 59-62
BusBrokerError ==
    /\ mqpc = "m_messages"
    /\ busErrors < MaxSessions
    /\ busErrors' = busErrors + 1
    /\ mq_client' = FALSE
    /\ mqpc' = "m_sleep"
    /\ UNCHANGED <<mq_running, mq_stopCalled, subscribed, busMsgs, mqttErr, nonbus>>

\* line 62 or 66 returns, then the loop test of line 20
BusSleepDone ==
    /\ mqpc = "m_sleep"
    /\ mqpc' = IF mq_running THEN "m_connect" ELSE "m_done"
    /\ UNCHANGED <<mq_running, mq_client, mq_stopCalled, subscribed, busMsgs,
                   busErrors, mqttErr, nonbus>>

\* lines 184-186
BusStop ==
    /\ mqpc # "m_init"
    /\ ~mq_stopCalled
    /\ mq_running' = FALSE
    /\ mq_stopCalled' = TRUE
    /\ UNCHANGED <<mqpc, mq_client, subscribed, busMsgs, busErrors, mqttErr, nonbus>>

\* ------------------------------------------------------------ specifications
NextL == Lifecycle \/ Stop \/ LinkLoss

NextM == Lifecycle \/ Stop \/ LinkLoss \/ Web \/ OnMqttMessage

SpecL == InitL /\ [][NextL]_vars

\* BLEManager.start as a task of the event loop: every await of the loop
\* (transport call, callback, sleep) eventually returns or raises and the task
\* resumes; stop() and the loss of the link are up to the environment
SpecLFair == SpecL /\ WF_vars(Lifecycle)

SpecM == InitC /\ [][NextM]_vars

\* the lifecycle task together with the device's answers to the login and
\* the Coordinator's handling of them
InitA == InitM /\ InitBus /\ InitQueue /\ InitNotify /\ InitNoCall /\ cap = MaxSessions

NextA ==
    \/ Lifecycle \/ Stop \/ LinkLoss
    \/ \E data \in AuthAnswers : DeviceAnswersLogin(data)
    \/ OnBleNotify

SpecA == InitA /\ [][NextA]_vars

\* the lifecycle task together with the notifications of its sessions
InitS == InitM /\ InitBus /\ InitQueue /\ InitNotify /\ InitNoCall /\ cap = MaxSessions

NextS ==
    \/ Lifecycle \/ Stop \/ LinkLoss
    \/ \E data \in SessionFragments : DeviceNotifiesRx(data)
    \/ \E data \in SessionFragments : DeviceNotifiesSt(data)

SpecS == InitS /\ [][NextS]_vars

\* the bus client loop with inbound messages, broker errors and stop()
InitB == InitM /\ InitBus /\ InitQueue /\ InitNotify /\ InitNoCall /\ cap = 0

NextB ==
    \/ BusStart \/ BusConnectOk \/ BusDiscoveryDone \/ BusSubscribeOk
    \/ BusCallFail \/ BusSleepDone
    \/ BusMessage \/ BusBrokerError \/ BusStop

\* the loop as a task of the event loop: its awaited calls return or raise
\* (weak fairness of the steps start() takes by itself); inbound messages,
\* broker errors and stop() are up to the environment
SpecBFair ==
    /\ InitB
    /\ [][NextB]_vars
    /\ WF_vars(BusStart \/ BusConnectOk \/ BusDiscoveryDone \/ BusSubscribeOk
                  \/ BusCallFail \/ BusSleepDone)

SpecQ == InitQ /\ [][NextQ]_vars

SpecF == InitF /\ [][NextF]_vars

SpecP == InitP /\ [][NextP]_vars

\* ==================================================================== claims
NotLogin(s) == SelectSeq(s, LAMBDA c : c # LOGIN)
NotSentinel(s) == SelectSeq(s, LAMBDA c : c # RECONNECT)

\* C1. Queue order preservation: the commands ble_task_loop has handed to the
\* transport, followed by the commands still waiting in cmd_queue, are exactly
\* the commands on_message enqueued, in enqueue order: nothing is reordered,
\* duplicated or interleaved, whatever the interleaving of puts and gets.
QueueOrderPreserved ==
    NotLogin(qwritten) \o NotSentinel(queue) = NotSentinel(enqueued)

\* C1 witness: two different commands were written in enqueue order while a
\* third item was put on the queue behind them.
QueueOrderWitness ==
    /\ NotLogin(qwritten) = <<START_CHARGE, STOP_CHARGE>>
    /\ Len(enqueued) = 3
    /\ Len(queue) = 1

\* C2. Strict serialization of device writes: at most one write_gatt_char call
\* is in progress at any time, whichever entry point issued it.
SerializedWrites == Cardinality(inflight) <= 1

\* C3. BLEManager.start() neither returns nor raises while stop() has not been
\* called, whatever the outcomes of the transport calls and of the
\* connection-change callback.
StartRunsUntilStopped == bpc \in {"done", "raised"} => stopCalled

\* C4. Indefinite retry: once a failed attempt or session has signalled
\* "disconnected" and stop() has not been called, the manager goes on to tear
\* the transport down and to wait the backoff before the next attempt.
RetryAfterFailure ==
    [][(bpc = "cb_false" /\ ~stopCalled)
         => bpc' \in {"cb_false", "disconnect", "backoff"}]_vars

\* C5. Backoff between attempts: a connect attempt starts only from the first
\* call or from a completed backoff wait, with no client held from an earlier
\* attempt; attempt N+1 starts after exactly N backoff waits, the last of them
\* a full BackoffSecs since the previous attempt or session ended.
BackoffBetweenAttempts ==
    [][attempts' # attempts
         => /\ attempts' = attempts + 1
            /\ client = None
            /\ bpc \in {"init", "backoff"}
            /\ backoffs' = attempts
            /\ (attempts > 0 => waited' = BackoffSecs)]_vars

\* C5 witness: three failed attempts, three backoff waits, the fourth attempt
\* starting.
BackoffWitness ==
    /\ attempts = 4
    /\ backoffs = 3
    /\ settled = 0
    /\ bpc = "connect"

\* C6. With a callback registered, the connected signal has been given exactly
\* once per attempt whose connect, both registrations, authentication and
\* settle wait all returned, and never for another attempt; when attempt N+1
\* is the first to succeed there have been exactly N backoff waits and exactly
\* one connected signal (N = 3 in the witness).
ConnectedOncePerSuccess ==
    hasCallback =>
        /\ connectedSignals = settled
        /\ (bpc \in {"cb_true", "monitor"} /\ settled = 1)
              => (backoffs = attempts - 1 /\ connectedSignals = 1)

\* C6 witness: three failed attempts followed by one success.
ConnectedOnceWitness ==
    /\ hasCallback
    /\ bpc = "monitor"
    /\ attempts = 4
    /\ settled = 1
    /\ backoffs = 3
    /\ connectedSignals = 1
    /\ disconnectedSignals = 3

\* C7. Register-then-authenticate: in every session the login command is
\* handed to the transport only if both notification channels were registered
\* successfully in that session.  (BLEManager.start)
RegisterThenAuthenticate == loginWritten => (regTx /\ regSt)

\* C7, queue-based loop (setup_notifications, then authenticate).
QRegisterThenAuthenticate == qLogin => (qRegTx /\ qRegSt)

\* C8. At most one connection is live: while the lifecycle loop is connecting
\* a newly created client, no client it created earlier is still connected.
OneLiveConnection ==
    bpc = "connect" => \A c \in 1..(attempts - 1) : ~isConn[c]

\* C9. A forced reconnect does not shorten the backoff: the connect attempt
\* that follows a teardown for "__RECONNECT__" starts only after at least the
\* wait used after a failed connect.  (queue-based loop)
QForcedReconnectKeepsBackoff ==
    (qpc = "q_connect" /\ qforced) => qwaited >= RetrySecs

\* C9, BLEManager.start with Coordinator.reconnect_ble: every attempt after
\* the first starts a full BackoffSecs after the previous one ended.
ReconnectKeepsBackoff ==
    (bpc = "connect" /\ attempts > 1) => waited = BackoffSecs

\* C10. A reconnect request while the manager is connecting or authenticating
\* is a no-op: reconnect_ble does not call disconnect() on the transport then.
Connecting == {"connect", "notify_tx", "notify_st", "auth", "auth_write", "settle"}

ReconnectNoOpWhileConnecting ==
    [][(bpc \in Connecting /\ rpc = "idle") => rpc' = "idle"]_vars

\* C11. The force-reconnect sentinel never reaches the transport write: every
\* string ble_task_loop has handed to write_gatt_char is a device command (the
\* login or a mapped command), and the step that takes the sentinel off the
\* queue writes nothing and goes to eb.disconnect() (or, with no connection
\* held, straight to the wait that follows it).
DeviceCommands ==
    ({LOGIN} \cup {BleCommand(topic, payload) : topic \in Topics, payload \in Payloads})
        \ {"", RECONNECT}

SentinelIntercepted ==
    [][/\ \A i \in 1..Len(qwritten') : qwritten'[i] \in DeviceCommands
       /\ (qpc = "q_get" /\ qpc' # "q_get" /\ queue # <<>> /\ Head(queue) = RECONNECT)
             => /\ qwritten' = qwritten
                /\ queue' = Tail(queue)
                /\ qpc' = IF connected THEN "q_disc_reconn" ELSE "q_reconn_sleep"]_vars

\* C11 witness: after the login and one command were written, the sentinel was
\* dequeued, the link closed, and nothing but device commands was written.
SentinelWitness ==
    /\ qpc = "q_reconn_sleep"
    /\ qforced
    /\ ~qlink
    /\ RECONNECT \in {enqueued[i] : i \in 1..Len(enqueued)}
    /\ qwritten = <<LOGIN, START_CHARGE>>

\* the framer the claims describe: the lines of a text, each the characters
\* before a terminator, and the partial text after the last terminator
RECURSIVE LinesOf(_)
LinesOf(text) ==
    IF ~HasTerminator(text) THEN <<>>
    ELSE LET i == CHOOSE k \in 1..Len(text) :
                     /\ text[k] = Terminator
                     /\ \A j \in 1..(k - 1) : text[j] # Terminator
         IN  <<SubSeq(text, 1, i - 1)>> \o LinesOf(SubSeq(text, i + 1, Len(text)))

RECURSIVE RestOf(_)
RestOf(text) ==
    IF ~HasTerminator(text) THEN text
    ELSE LET i == CHOOSE k \in 1..Len(text) :
                     /\ text[k] = Terminator
                     /\ \A j \in 1..(k - 1) : text[j] # Terminator
         IN  RestOf(SubSeq(text, i + 1, Len(text)))

\* C12. Framer line emission: when a decodable fragment arrives on the TX
\* channel, the text before each terminator of buffer + fragment is emitted to
\* the notify callback as one line without its terminator, one emission per
\* terminator, and the text after the last terminator stays in the buffer.
FramerEmitsLines ==
    [][fedRx' # fedRx
         => LET data == SubSeq(fedRx', Len(fedRx) + 1, Len(fedRx'))
                text == notification_buffer_rx \o Decode(data)
            IN  Decodable(data)
                  => /\ delivered' = delivered \o LinesOf(text)
                     /\ notification_buffer_rx' = RestOf(text)]_vars

\* C13. Framer independence from fragmentation: whatever way a decodable text
\* of terminated lines was split across notifications, the notify callback
\* has been given the same sequence of emissions as when the whole text
\* arrives in one notification.
FragmentationIndependent ==
    (fedRx # <<>> /\ fedRx[Len(fedRx)] = Terminator /\ Decodable(fedRx))
        => delivered = RxStep(<<>>, fedRx).emit

\* C14. An undecodable fragment empties the buffer of the channel it arrived
\* on, whatever partial text had accumulated there, creates no callback task,
\* and the handler returns normally (the step leaves nothing else changed).
UndecodableDiscardsBuffer ==
    [][\A data \in Fragments :
         ~Decodable(data)
           => /\ NotificationHandlerRx(data)
                   => /\ notification_buffer_rx' = <<>>
                      /\ delivered' = delivered
                      /\ notification_buffer_st' = notification_buffer_st
              /\ NotificationHandlerSt(data)
                   => /\ notification_buffer_st' = <<>>
                      /\ delivered' = delivered
                      /\ notification_buffer_rx' = notification_buffer_rx]_vars

\* C14 witness: partial text was buffered on the TX channel, then a lone lead
\* byte arrived: the buffer is empty and nothing was emitted.
UndecodableWitness ==
    /\ fedRx = <<"$EEP,READ,IDX,17", LeadByte>>
    /\ notification_buffer_rx = <<>>
    /\ delivered = <<>>
    /\ notifs = 2

\* the routes the mappers document: keyword payloads per suffix, the
\* action/value payloads of dpm, charge and limit, and the set/ commands
InRouteTable(subtopic, payload) ==
    LET t == Join(subtopic)
        p == Join(payload)
    IN  \/ t = "set/dpm" /\ p \in {"ON", "OFF"}
        \/ t \in {"set/user_limit", "set/safe_limit", "set/dpm_limit"}
        \/ t \in {"set/refresh", "set/start_charge", "set/stop_charge"}
        \/ t = "dpm" /\ p \in {"on", "off", "limit", "status"}
        \/ t = "dpm" /\ HasSlash(payload) /\ Split(payload).cmd = "limit"
        \/ t = "charge" /\ p \in {"start", "stop"}
        \/ t = "charge" /\ HasSlash(payload) /\ Split(payload).cmd \in {"start", "stop"}
        \/ t = "limit" /\ p \in {"dpm", "safe", "user"}
        \/ t = "limit" /\ HasSlash(payload) /\ Split(payload).cmd \in {"dpm", "safe", "user"}
        \/ t = "read" /\ p \in {"manufacturing", "settings", "app_data",
                                  "hw_settings", "voltage"}

\* C15. The command mappers are total and deterministic: a call returns a
\* command or nothing and no exception leaves it, a repeated call returns the
\* same, and a pair outside the route table gets nothing.
MapperTotal ==
    /\ mapped # ValueError
    /\ cmapped # ValueError
    /\ mapped # NotCalled => mapped = MapCommand(arg_subtopic, arg_payload)
    /\ cmapped # NotCalled => cmapped = MapMqttToBle(arg_subtopic, arg_payload)
    /\ mapped \notin {NotCalled, NoCommand} => InRouteTable(arg_subtopic, arg_payload)
    /\ cmapped \notin {NotCalled, NoCommand} => InRouteTable(arg_subtopic, arg_payload)

\* C16. For every integer N of the model, MQTTBLEMapper.map_command("limit",
\* "user/N") returns "$EEP,WRITE,IDX,174,N\n", "safe/N" the same with index
\* 156 and "dpm/N" with index 158.
LimitSettersByIndex ==
    (mapped # NotCalled /\ Join(arg_subtopic) = "limit" /\ HasSlash(arg_payload))
      => \A text \in DOMAIN IntOf :
            LET N == ToString(IntOf[text])
            IN  /\ Join(arg_payload) = "user/" \o N
                       => mapped = "$EEP,WRITE,IDX,174," \o N \o "\n"
                /\ Join(arg_payload) = "safe/" \o N
                       => mapped = "$EEP,WRITE,IDX,156," \o N \o "\n"
                /\ Join(arg_payload) = "dpm/" \o N
                       => mapped = "$EEP,WRITE,IDX,158," \o N \o "\n"

\* C16 witness: map_command("limit", "user/16") returned "$EEP,WRITE,IDX,174,16\n".
LimitSetterWitness ==
    /\ Join(arg_subtopic) = "limit"
    /\ Join(arg_payload) = "user/16"
    /\ mapped = "$EEP,WRITE,IDX,174,16\n"

\* C17. An action/value payload whose value is not numeric is rejected by both
\* mappers, for the limit setters and for the charge start/stop delay alike:
\* the call returns no command.
NonNumericRejected ==
    (/\ Join(arg_subtopic) \in {"limit", "dpm", "charge"}
     /\ HasSlash(arg_payload)
     /\ Split(arg_payload).val \notin DOMAIN IntOfFloat)
      => /\ mapped \in {NotCalled, NoCommand}
         /\ cmapped \in {NotCalled, NoCommand}

\* the commands a caller has to dispatch for what a mapper returned
CommandsOf(command) == IF command = NoCommand THEN <<>> ELSE <<command>>

\* C18. A refresh request on the bus (suffix set/refresh) yields every
\* read-command of the refresh list, READ_SETTINGS then READ_APP_DATA, for
\* dispatch in that order.
RefreshYieldsAllReads ==
    Join(arg_subtopic) = "set/refresh"
      => /\ mapped # NotCalled => CommandsOf(mapped) = RefreshCommands
         /\ cmapped # NotCalled => CommandsOf(cmapped) = RefreshCommands

\* Coordinator.set_limit: the read command paired with a set command
PairedRead(command) ==
    CASE command = SET_USER_LIMIT -> GET_USER_LIMIT
      [] command = SET_SAFE_LIMIT -> GET_SAFE_LIMIT
      [] command = SET_DPM_LIMIT -> GET_DPM_LIMIT
      [] OTHER -> NoCommand

\* C19. Read-after-write: when the write of a set command issued by
\* Coordinator.set_limit is over, the same call goes on to dispatch the paired
\* read command (READ,IDX with the same index).
ReadAfterWrite ==
    [][\A t \in WebTasks :
         (wpc[t] = "set_limit" /\ wpc'[t] # "set_limit")
           => wcmd'[t] = PairedRead(wcmd[t])]_vars

\* mqtt_manager.py:104: the state topic of the user limit
UserLimitStateTopic == "easywallbox/number/user_limit/state"

\* C20. Once the Coordinator has handled the complete line
\* "$EEP,READ,IDX,174,160" and every publish it made went through, "160" has
\* been published on the user-limit state topic.
ReadLinePublishesState ==
    \A i \in 1..handled :
        (Join(Strip(delivered[i])) = "$EEP,READ,IDX,174,160" /\ Len(published) = handled)
          => [topic |-> UserLimitStateTopic, payload |-> "160"]
                \in {published[k] : k \in 1..Len(published)}

\* C21. Every connection-state change is published: whenever BLEManager is in
\* the Connected state (polling the link after the settle wait), the last
\* connectivity value signalled for publishing is "connected".
ConnectivityPublished == bpc = "monitor" => lastSignal = "True"

\* C22. A transport write failure is treated as connection loss: the step in
\* which write_gatt_char raises for the login or for a queued command takes
\* the dispatch loop to the teardown of the link (eb.disconnect()), from
\* where it reconnects after the wait.
WriteFailureTearsDown ==
    [][(qpc \in {"q_auth_write", "q_write"} /\ qpc' # qpc /\ write_failed')
          => qpc' \in {"q_disc_reconn", "q_disc_err"}]_vars

\* C23. Teardown is best-effort: a teardown step of the dispatch loop in which
\* the transport disconnect raised (eb.connected is left as it was, line 63
\* was not reached) never ends the loop; the loop goes on to the teardown of
\* the error branch, to a wait, or to the next pass.
TeardownStages == {"q_disc_reconn", "q_disc_err"}

TeardownBestEffort ==
    [][(qpc \in TeardownStages /\ qpc' # qpc /\ connected /\ connected')
          => qpc' \in {"q_disc_err", "q_reconn_sleep", "q_cooldown", "q_top"}]_vars

\* C24. A failing bus publish is swallowed: when client.connect() has brought
\* the link up, the connect attempt counts as a success and the loop goes on
\* to register the notifications, whatever became of the "connected" status
\* publish.
PublishFailureSwallowed ==
    [][(qpc = "q_connect" /\ ~qlink /\ qlink') => qpc' = "q_notify_tx"]_vars

\* C25. Bus-to-device routing: the Coordinator's handler takes every inbound
\* bus message through prefix test, mapping and dispatch without an error,
\* whether or not the message ends in a device write.
BusMessageRouted == ~mqttErr

\* C26. Every enqueued command is consumed exactly once: each step that takes
\* a command off cmd_queue hands exactly that command to write_gatt_char, and
\* commands stay queued while the link is down, so a command is taken off the
\* queue only while the link is up.  Stated for sessions that registered
\* both channels and sent the login.
ConsumedExactlyOnce ==
    [][(queue # <<>> /\ queue' = QueueGet(queue).rest
           /\ QueueGet(queue).item # RECONNECT
           /\ qRegTx /\ qRegSt /\ qLogin)
          => (qlink /\ qwritten' = Append(qwritten, QueueGet(queue).item))]_vars

\* C27. Cooperative stop: once stop() has been called, start() makes no
\* further connect attempt, begins no backoff wait, does not end in an
\* exception, and when it returns the last signal it gave for every attempt
\* was "disconnected".
CooperativeStop ==
    [][stopCalled =>
          /\ attempts' = attempts
          /\ (bpc' = "backoff" => bpc = "backoff")
          /\ (bpc' = "raised" => bpc = "raised")
          /\ ((bpc' = "done" /\ hasCallback) => disconnectedSignals' = attempts')]_vars

\* C28. The connected signal is emitted in a session only after the login
\* command of that session was handed to the transport: every step that
\* signals "connected" is taken with the login written.
ConnectedOnlyAfterLogin ==
    [][connectedSignals' # connectedSignals => loginWritten]_vars

\* C29. Link-loss detection: when the link is down while BLEManager polls it
\* in the Connected state and stop() has not been called, the manager goes on
\* (through the disconnected signal, the reset of the handle and the backoff
\* wait) to a new connect attempt, unless stop() is called meanwhile.  Stated
\* for the attempts below the bound of the run.
LinkLossLeadsToReconnect ==
    (bpc = "monitor" /\ ~isConn[client] /\ ~stopCalled /\ attempts < cap)
        ~> (stopCalled \/ bpc = "connect")

\* C30. An authentication-failure answer of the device does not change the
\* connection lifecycle: the arrival of an answer and its handling by the
\* Coordinator leave the lifecycle as it is, the settle wait always ends in
\* the connected signal, and the Connected state is left only for stop() or
\* a lost link, whatever the device answered.
LifecycleVars == <<bpc, running, client, isConn, sigVars, countVars, stopCalled>>

ChannelsFramedIndependently ==
    [][notifs' # notifs =>
          IF fedRx' # fedRx
          THEN notification_buffer_st' = notification_buffer_st
          ELSE /\ notification_buffer_rx' = notification_buffer_rx
               /\ delivered' = delivered]_vars

\* fragments arrived interleaved on both channels: a line was emitted from
\* the data channel and both channels hold partial text
ChannelsWitness ==
    /\ delivered # <<>>
    /\ notification_buffer_rx # <<>>
    /\ notification_buffer_st # <<>>

\* C32. Authentication precedes commands: a command of set_limit or
\* refresh_data is handed to write_gatt_char only in a session whose login
\* command has been written.
AuthenticationPrecedesCommands ==
    [][\A t \in WebTasks :
          (wpc[t] = "idle" /\ wpc'[t] # "idle") => loginWritten]_vars

\* C33. Connection-change signals are well ordered: a connected signal is
\* never given while the last signal given was a connected one, and start()
\* does not return with a connected signal as its last.
SignalsWellOrdered ==
    [][/\ connectedSignals' # connectedSignals => lastSignal # "True"
       /\ bpc' = "done" => lastSignal' # "True"]_vars

\* a second session was signalled connected after the first was signalled
\* connected and then disconnected
SignalsWitness ==
    /\ connectedSignals = 2 /\ disconnectedSignals = 1
    /\ lastSignal = "True"

\* C34. Notification buffers do not leak across sessions: both channel
\* buffers are empty when a new session starts, so partial text of one
\* session is never joined with text of the next.
BuffersEmptyAtSessionStart ==
    [][attempts' # attempts
          => (notification_buffer_rx' = <<>> /\ notification_buffer_st' = <<>>)]_vars

\* C35. In the queue-based loop the connected flag agrees with the transport:
\* whenever the loop takes a command off the queue and calls write with the
\* flag true, the link is up.  Stated for sessions that sent the login.
FlagAgreesWithLink ==
    [][(qpc = "q_get" /\ qpc' = "q_write" /\ connected /\ qLogin) => qlink]_vars

\* C36. BLEManager.write called while there is no client or the client is not
\* connected performs no transport write and leaves the manager as it is: a
\* set_limit or refresh_data request made in such a state starts no
\* write_gatt_char call, keeps no command for later and changes nothing of
\* the connection lifecycle.
WriteDroppedWhenNotConnected ==
    [][(reqs' # reqs /\ ~CanWrite)
          => /\ inflight' = inflight
             /\ wpc' = wpc
             /\ wcmd' = wcmd
             /\ UNCHANGED <<LifecycleVars, sessionVars, isConn>>]_vars

\* a request was made while the first connect() was still pending: nothing
\* is in flight and no task holds a command
WriteDroppedWitness ==
    /\ reqs = 1
    /\ bpc = "connect" /\ attempts = 1
    /\ inflight = {}
    /\ \A t \in WebTasks : wpc[t] = "idle" /\ wcmd[t] = ""

\* C37. The two legacy-topic mappers agree: for a suffix among dpm, charge,
\* limit and read and any payload, Coordinator._map_mqtt_to_ble returns what
\* MQTTBLEMapper.map_command returns (the same command, or nothing in both).
LegacySuffixes == {"dpm", "charge", "limit", "read"}

MappersAgree ==
    (mapped # NotCalled /\ cmapped # NotCalled /\ Join(arg_subtopic) \in LegacySuffixes)
        => cmapped = mapped

\* C38. Every command string MQTTBLEMapper.map_command produces is exactly
\* one protocol line: its only line terminator is its last character.
TerminatorsAt(command) ==
    {i \in 1..Len(command) : SubSeq(command, i, i) = Terminator}

OneCommandLine ==
    mapped \notin {NotCalled, NoCommand} => TerminatorsAt(mapped) = {Len(mapped)}

\* C39. Cooperative stop of the bus loop: once MQTTManager.stop() has been
\* called, MQTTManager.start() returns, whether or not another bus message
\* or a broker error arrives.
BusLoopStops == mq_stopCalled ~> (mqpc = "m_done")

====
